---- MODULE Spec2Model ----
(***************************************************************************)
(* Personal (Dis)Organiser: the in-memory task model of internal/app and   *)
(* its ordering / placement algorithms (day compositor, hierarchical       *)
(* insertion, cross-day move), driven by the bubbletea key-event loop.     *)
(*                                                                         *)
(* Dates are whole days (time.Time truncated to 24h); day 0 is time.Now(). *)
(* sort.Slice is modelled by the insertion sort the Go runtime applies to  *)
(* slices of at most 12 elements, which every slice of the model is.       *)
(* Loop variables are per-iteration (go >= 1.22), so the &task stored in a *)
(* ListItem is a snapshot of that iteration's task.                        *)
(***************************************************************************)
EXTENDS Integers, Sequences, FiniteSets, TLC

VARIABLES
    tasks,            \* m.appData.Tasks: the stored collection, in storage order
    mtasks,           \* m.tasks: the composited current day
    calendar,         \* the remote calendar the calendarManager reads
    currentDate,      \* m.currentDate
    mode,             \* m.mode
    items,            \* m.list.Items()
    cursor,           \* m.list.Index(), 1-based
    editDate,         \* m.editDate
    editTaskForDate,  \* m.editTaskForDate: the id of the edited task, NoId for nil
    deleteTaskID,     \* m.deleteTaskID, NoId for ""
    textInput,        \* m.textInput.Value()
    saved,            \* the collection last handed to storage.SaveData
    nextId,           \* the next fresh uuid
    searchQuery,      \* m.searchQuery
    searchResults,    \* m.searchResults
    searchCursor,     \* m.searchCursor
    ops,              \* number of operations the user has started so far
    last              \* the operation performed by the last step, with the collection before it

vars == <<tasks, mtasks, calendar, currentDate, mode, items, cursor, editDate,
          editTaskForDate, deleteTaskID, textInput, saved, nextId, searchQuery,
          searchResults, searchCursor, ops, last>>

searchVars == <<searchQuery, searchResults, searchCursor>>

-----------------------------------------------------------------------------
(* Bounds of the model *)

MaxOps == 2
FutureDays == 1

(* Program constants *)

Today == 0
DefaultPriority == 1
CalendarPriority == -1

NoId == 0
NoTask == [id |-> NoId]
NoItem == [type |-> "none"]
Texts == {" ", "a"}

-----------------------------------------------------------------------------
(* storage.Task and its constructors *)

Task(id, text, date, prio, level) ==
    [id |-> id, text |-> text, done |-> FALSE, date |-> date, cal |-> FALSE,
     start |-> 0, prio |-> prio, created |-> id, level |-> level]

\* a constructor whose uuid is always the same
CreateTaskSameId(id, text, date) ==
    [id |-> 1, text |-> text, done |-> FALSE, date |-> date, cal |-> FALSE,
     start |-> 0, prio |-> 0, created |-> id, level |-> 0]

\* a constructor that marks the new task as a calendar event
CreateTaskAsCalendar(id, text, date) ==
    [id |-> id, text |-> text, done |-> FALSE, date |-> date, cal |-> TRUE,
     start |-> 0, prio |-> 0, created |-> id, level |-> 0]

CreateTask(id, text, date) ==
    [id |-> id, text |-> text, done |-> FALSE, date |-> date, cal |-> FALSE,
     start |-> 0, prio |-> 0, created |-> id, level |-> 0]

\* a calendar event as FetchEvents builds it, found in the stored file
StoredEvent(id, date, start) ==
    [id |-> id, text |-> "e", done |-> FALSE, date |-> date, cal |-> TRUE,
     start |-> start, prio |-> CalendarPriority, created |-> id, level |-> 0]

TrimSpace(s) == IF s = " " THEN "" ELSE s

\* calendar.Manager.FetchEvents: one task per event of the calendar occurring on date
RECURSIVE FetchEvents(_, _)
FetchEvents(cal, date) ==
    IF cal = <<>> THEN <<>>
    ELSE LET e == Head(cal)
             rest == FetchEvents(Tail(cal), date)
         IN IF e.day = date
            THEN <<[id |-> 0 - Len(cal), text |-> "e", done |-> FALSE, date |-> date,
                    cal |-> TRUE, start |-> e.start, prio |-> CalendarPriority,
                    created |-> 0, level |-> 0]>> \o rest
            ELSE rest

-----------------------------------------------------------------------------
(* The day compositor *)

\* a less function that forgets the start time of calendar events
TaskLessNoStart(a, b) ==
    IF a.cal # b.cal THEN a.cal
    ELSE a.prio > b.prio

\* the less function handed to sort.Slice
TaskLess(a, b) ==
    IF a.cal # b.cal THEN a.cal
    ELSE IF a.cal /\ b.cal THEN a.start < b.start
    ELSE a.prio > b.prio

RECURSIVE InsertSorted(_, _)
InsertSorted(s, x) ==
    IF s = <<>> THEN <<x>>
    ELSE IF TaskLess(x, s[Len(s)])
         THEN Append(InsertSorted(SubSeq(s, 1, Len(s) - 1), x), s[Len(s)])
         ELSE Append(s, x)

RECURSIVE SortTasks(_)
SortTasks(s) ==
    IF s = <<>> THEN <<>>
    ELSE InsertSorted(SortTasks(SubSeq(s, 1, Len(s) - 1)), s[Len(s)])

OnDate(ts, date) == SelectSeq(ts, LAMBDA t : t.date = date)

getTasksForDate(ts, date) == SortTasks(OnDate(ts, date))

updateTasksForCurrentDate(ts, cal, cd) == SortTasks(FetchEvents(cal, cd) \o OnDate(ts, cd))

-----------------------------------------------------------------------------
(* The list of the next days *)

RECURSIVE TaskItems(_, _)
TaskItems(dayTasks, date) ==
    IF dayTasks = <<>> THEN <<>>
    ELSE <<[type |-> "task", date |-> date, task |-> Head(dayTasks)]>>
         \o TaskItems(Tail(dayTasks), date)

DayItems(ts, date) ==
    <<[type |-> "day_header", date |-> date, task |-> NoTask]>>
    \o TaskItems(getTasksForDate(ts, date), date)
    \o <<[type |-> "add_button", date |-> date, task |-> NoTask]>>

RECURSIVE ItemsFrom(_, _)
ItemsFrom(ts, i) ==
    IF i > FutureDays THEN <<>>
    ELSE DayItems(ts, Today + i) \o ItemsFrom(ts, i + 1)

rebuildListItems(ts) == ItemsFrom(ts, 0)

\* list.SetItems keeps the index, within the new items
KeepIndex(its, cur) == IF cur > Len(its) THEN Len(its) ELSE cur

getSelectedListItem(its, cur) ==
    IF cur >= 1 /\ cur <= Len(its) THEN its[cur] ELSE NoItem

Positions(its, P(_)) == {i \in 1..Len(its) : P(its[i])}

MinOf(S) == CHOOSE x \in S : \A y \in S : x <= y
MaxOf(S) == CHOOSE x \in S : \A y \in S : x >= y

setListCursorToTask(its, cur, id) ==
    LET hits == Positions(its, LAMBDA it : it.type = "task" /\ it.task.id = id)
    IN IF hits = {} THEN cur ELSE MinOf(hits)

rebuildListItemsPreservingSelection(oldItems, cur, ts) ==
    LET sel == getSelectedListItem(oldItems, cur)
        its == rebuildListItems(ts)
        kept == KeepIndex(its, cur)
        same == Positions(its, LAMBDA it : it.type = sel.type /\ it.date = sel.date)
    IN IF sel = NoItem THEN kept
       ELSE IF sel.task # NoTask THEN setListCursorToTask(its, kept, sel.task.id)
       ELSE IF sel.type \in {"add_button", "day_header"} /\ same # {} THEN MinOf(same)
       ELSE kept

-----------------------------------------------------------------------------
(* The hierarchical insertion engine *)

NonCalendarPriorities(ts) == {ts[i].prio : i \in {j \in 1..Len(ts) : ~ts[j].cal}}

\* minPriority := 0; lowered to every lower non-calendar priority
MinPriorityFromZero(ts) == MinOf(NonCalendarPriorities(ts) \cup {0})

\* maxPriority := 0; raised to every higher non-calendar priority
MaxPriorityFromZero(ts) == MaxOf(NonCalendarPriorities(ts) \cup {0})

\* an append that takes the lowest priority itself
AppendPriorityNoStep(dayTasks) == MinPriorityFromZero(dayTasks)

\* the add_button branch of insertTaskAtPosition
AppendPriority(dayTasks) == MinPriorityFromZero(dayTasks) - 1

\* the subtask scan of insertTaskAtPosition
SubtaskPriorities(dayTasks, selectedTask) ==
    {dayTasks[i].prio : i \in {j \in 1..Len(dayTasks) :
        /\ ~dayTasks[j].cal
        /\ dayTasks[j].prio < selectedTask.prio
        /\ dayTasks[j].level > selectedTask.level}}

\* an end of block that skips the subtask scan
EndPriorityNoScan(dayTasks, selectedTask) == selectedTask.prio - 1

\* endPriority of insertTaskAtPosition
EndPriority(dayTasks, selectedTask) ==
    MinOf(SubtaskPriorities(dayTasks, selectedTask) \cup {selectedTask.prio - 1})

\* the task branch of insertTaskAtPosition
AfterBlockPriority(dayTasks, selectedTask) == EndPriority(dayTasks, selectedTask) - 1

InsertPriority(ts, sel, targetDate) ==
    LET dayTasks == getTasksForDate(ts, targetDate)
    IN IF sel = NoItem \/ Len(dayTasks) = 0 THEN DefaultPriority
       ELSE IF sel.type = "add_button" THEN AppendPriority(dayTasks)
       ELSE IF sel.type = "task" /\ sel.task # NoTask
            THEN AfterBlockPriority(dayTasks, sel.task)
       ELSE DefaultPriority

insertTaskAtPosition(ts, sel, newTask, targetDate) ==
    Append(ts, [newTask EXCEPT !.prio = InsertPriority(ts, sel, targetDate)])

-----------------------------------------------------------------------------
(* The cross-day move engine *)

\* position of the first task with the id, 0 when there is none
IndexOfId(ts, id) ==
    LET hits == {i \in 1..Len(ts) : ts[i].id = id}
    IN IF hits = {} THEN 0 ELSE MinOf(hits)

\* a move within the day that swaps the priorities of the task and of the
\* neighbour it passes
moveTaskWithinDaySwap(ts, taskID, fromIndex, toIndex) ==
    LET i == IndexOfId(ts, taskID)
        dayTasks == getTasksForDate(ts, ts[i].date)
        k == IndexOfId(ts, dayTasks[toIndex].id)
    IN IF i = 0 THEN ts
       ELSE [ts EXCEPT ![i].prio = ts[k].prio, ![k].prio = ts[i].prio]

moveTaskWithinDay(ts, taskID, fromIndex, toIndex) ==
    LET i == IndexOfId(ts, taskID)
    IN IF i = 0 THEN ts
       ELSE IF toIndex < fromIndex
            THEN [ts EXCEPT ![i].prio = @ + 1]
            ELSE [ts EXCEPT ![i].prio = @ - 1]

\* position -1: the end of the day
EndOfDayPriority(ts, toDate) == MinPriorityFromZero(OnDate(ts, toDate)) - 1

\* a start of day that takes the highest priority itself
StartOfDayPriorityNoStep(ts, toDate) == MaxPriorityFromZero(OnDate(ts, toDate))

\* any other position: the beginning of the day
StartOfDayPriority(ts, toDate) == MaxPriorityFromZero(OnDate(ts, toDate)) + 1

moveTaskToDay(ts, taskID, toDate, position) ==
    LET i == IndexOfId(ts, taskID)
        dated == [ts EXCEPT ![i].date = toDate]
    IN IF i = 0 THEN ts
       ELSE IF position = 0 - 1
            THEN [dated EXCEPT ![i].prio = EndOfDayPriority(dated, toDate)]
            ELSE [dated EXCEPT ![i].prio = StartOfDayPriority(dated, toDate)]

\* the floor of moveTaskUp
MayMoveTo(prevDate, cd) == ~(prevDate < cd)

moveTaskUp(ts, cd, date, taskID) ==
    LET dayTasks == getTasksForDate(ts, date)
        localIndex == IndexOfId(dayTasks, taskID)
    IN IF localIndex = 0 \/ dayTasks[localIndex].cal THEN ts
       ELSE IF localIndex > 1
            THEN moveTaskWithinDay(ts, taskID, localIndex, localIndex - 1)
       ELSE IF MayMoveTo(date - 1, cd)
            THEN moveTaskToDay(ts, taskID, date - 1, 0 - 1)
       ELSE ts

moveTaskDown(ts, date, taskID) ==
    LET dayTasks == getTasksForDate(ts, date)
        localIndex == IndexOfId(dayTasks, taskID)
    IN IF localIndex = 0 \/ dayTasks[localIndex].cal THEN ts
       ELSE IF localIndex < Len(dayTasks)
            THEN moveTaskWithinDay(ts, taskID, localIndex, localIndex + 1)
       ELSE moveTaskToDay(ts, taskID, date + 1, 0)

-----------------------------------------------------------------------------
(* Operations on one stored task *)

toggleTaskById(ts, taskID) ==
    LET i == IndexOfId(ts, taskID)
    IN IF i = 0 THEN ts ELSE [ts EXCEPT ![i].done = ~@]

\* a deletion that also drops every task stored after the deleted one
deleteTaskByIdTruncate(ts, taskID) ==
    LET i == IndexOfId(ts, taskID)
    IN IF i = 0 THEN ts ELSE SubSeq(ts, 1, i - 1)

deleteTaskById(ts, taskID) ==
    LET i == IndexOfId(ts, taskID)
    IN IF i = 0 THEN ts ELSE SubSeq(ts, 1, i - 1) \o SubSeq(ts, i + 1, Len(ts))

\* a level adjustment without the newLevel >= 0 test
adjustTaskLevelNoFloor(ts, taskID, delta) ==
    LET i == IndexOfId(ts, taskID)
    IN IF i = 0 THEN ts ELSE [ts EXCEPT ![i].level = @ + delta]

adjustTaskLevel(ts, taskID, delta) ==
    LET i == IndexOfId(ts, taskID)
    IN IF i = 0 THEN ts
       ELSE IF ts[i].level + delta >= 0 THEN [ts EXCEPT ![i].level = @ + delta]
       ELSE ts

setTaskText(ts, taskID, text) ==
    LET i == IndexOfId(ts, taskID)
    IN IF i = 0 THEN ts ELSE [ts EXCEPT ![i].text = text]

-----------------------------------------------------------------------------
(* The search engine: internal/search *)

\* []rune(s): the characters of the texts and queries of the model
\* a text of 601 characters that contains every query
LongText ==
    "ab abaaaaaaaaaaaaaaaaaaaaaaaaaaaaaaaaaaaaaaaaaaaaaaaaaaaaaaaaaaaaaaaaaaaaaaaaaaaaaaaaaaaaaaaaaaaaaaaaaaaaaaaaaaaaaaaaaaaaaaaaaaaaaaaaaaaaaaaaaaaaaaaaaaaaaaaaaaaaaaaaaaaaaaaaaaaaaaaaaaaaaaaaaaaaaaaaaaaaaaaaaaaaaaaaaaaaaaaaaaaaaaaaaaaaaaaaaaaaaaaaaaaaaaaaaaaaaaaaaaaaaaaaaaaaaaaaaaaaaaaaaaaaaaaaaaaaaaaaaaaaaaaaaaaaaaaaaaaaaaaaaaaaaaaaaaaaaaaaaaaaaaaaaaaaaaaaaaaaaaaaaaaaaaaaaaaaaaaaaaaaaaaaaaaaaaaaaaaaaaaaaaaaaaaaaaaaaaaaaaaaaaaaaaaaaaaaaaaaaaaaaaaaaaaaaaaaaaaaaaaaaaaaaaaaaaaaaaaaaaaaaaaaaaaaaaaaaaaaaaaaaaaaaaaaaaaaaaaaaaaaaaaaaaaaaaaaaaaaaaaaaaaaaaaaaaaaaaaaaaaaaaaaaaaaaaaaaaaaaaaaaaaaaaaaaaaaaaaa"

Runes(s) ==
    CASE s = "" -> <<>>
      [] s = " " -> <<" ">>
      [] s = "a" -> <<"a">>
      [] s = "b" -> <<"b">>
      [] s = "e" -> <<"e">>
      [] s = "ab" -> <<"a", "b">>
      [] s = "Ab" -> <<"A", "b">>
      [] s = "ba" -> <<"b", "a">>
      [] s = "a b" -> <<"a", " ", "b">>
      [] s = "aba" -> <<"a", "b", "a">>
      [] s = "abba" -> <<"a", "b", "b", "a">>
      [] s = LongText -> <<"a", "b", " ", "a", "b", "a">> \o [i \in 1..595 |-> "a"]

LowerRune(c) == CASE c = "A" -> "a" [] c = "B" -> "b" [] OTHER -> c

\* strings.ToLower
ToLower(r) == [i \in 1..Len(r) |-> LowerRune(r[i])]

\* strings.Contains
Contains(text, query) ==
    \E k \in 0..(Len(text) - Len(query)) : SubSeq(text, k + 1, k + Len(query)) = query

abs(x) == IF x < 0 THEN 0 - x ELSE x

max(a, b) == IF a > b THEN a ELSE b

\* the subsequence loop of calculateScore from text position i on, with queryIdx
\* characters of the query matched so far: <<queryIdx, score>> at the end
RECURSIVE FuzzyScan(_, _, _, _, _)
FuzzyScan(queryChars, textChars, i, queryIdx, score) ==
    IF i > Len(textChars) THEN <<queryIdx, score>>
    ELSE IF queryIdx < Len(queryChars) /\ textChars[i] = queryChars[queryIdx + 1]
         THEN LET consecutive == IF queryIdx > 0 /\ i > 1
                                    /\ textChars[i - 1] = queryChars[queryIdx]
                                 THEN 5 ELSE 0
                  boundary == IF i = 1 \/ textChars[i - 1] = " " THEN 15 ELSE 0
              IN FuzzyScan(queryChars, textChars, i + 1, queryIdx + 1,
                           score + 10 + consecutive + boundary)
         ELSE FuzzyScan(queryChars, textChars, i + 1, queryIdx, score)

\* calculateScore on the characters of the (lowered) query and of the text
calculateScore(query, rawText) ==
    LET text == ToLower(rawText)
    IN IF Contains(text, query)
       THEN IF text = query THEN 1000 ELSE 500 + (100 - Len(text))
       ELSE LET r == FuzzyScan(query, text, 1, 0, 0)
            IN IF r[1] < Len(query) THEN 0
               ELSE max(0, r[2] - abs(Len(text) - Len(query)))

\* a boost that forgets the done flag
BoostedEvenIfDone(task, score) ==
    IF ~(task.date < Today) THEN score + 100 ELSE score

\* the boost of Search for a task that is not done and not before today
Boosted(task, score) ==
    IF ~task.done /\ ~(task.date < Today) THEN score + 100 ELSE score

\* the results of the scoring loop of Search, in storage order
RECURSIVE Scored(_, _)
Scored(query, ts) ==
    IF ts = <<>> THEN <<>>
    ELSE LET task == ts[Len(ts)]
             score == calculateScore(query, Runes(task.text))
             rest == Scored(query, SubSeq(ts, 1, Len(ts) - 1))
         IN IF score > 0
            THEN Append(rest, [task |-> task, score |-> Boosted(task, score),
                               match |-> task.text])
            ELSE rest

\* a less function without the tie-break on the date
ResultLessNoDate(a, b) == a.score > b.score

\* the less function of Search
ResultLess(a, b) ==
    IF a.score = b.score THEN a.task.date > b.task.date ELSE a.score > b.score

RECURSIVE InsertResult(_, _)
InsertResult(s, x) ==
    IF s = <<>> THEN <<x>>
    ELSE IF ResultLess(x, s[Len(s)])
         THEN Append(InsertResult(SubSeq(s, 1, Len(s) - 1), x), s[Len(s)])
         ELSE Append(s, x)

RECURSIVE SortResults(_)
SortResults(s) ==
    IF s = <<>> THEN <<>>
    ELSE InsertResult(SortResults(SubSeq(s, 1, Len(s) - 1)), s[Len(s)])

\* Engine.Search
Search(query, ts) ==
    IF query = "" THEN <<>>
    ELSE SortResults(Scored(ToLower(Runes(query)), ts))

-----------------------------------------------------------------------------
(* Initial states: the collection LoadData returns and the calendar configured *)

BusyCalendar ==
    <<[day |-> 0, start |-> 2], [day |-> 0, start |-> 1],
      [day |-> 1, start |-> 1], [day |-> 0, start |-> 1]>>

Calendars == {<<>>, BusyCalendar}

\* stored collections of the key-event machine
StoredCollections ==
    {<<>>,
     <<Task(1, "b", 0, 1, 0), Task(2, "b", 1, 1, 0), Task(3, "b", 1, 0 - 1, 1)>>,
     <<Task(1, "b", 0, 3, 0), Task(2, "b", 0, 2, 1), Task(3, "b", 0, 0, 1)>>,
     <<Task(1, "b", 1, 0, 0), Task(2, "b", 2, 0 - 2, 0)>>}

\* stored collections handed to the engines: up to three tasks around day 1
EngineCollections ==
    LET full == {<<Task(1, "a", 1, p1, 0), Task(2, "a", 1, p2, l2), Task(3, "b", d3, p3, l3)>> :
                    <<p1, p2, l2, d3, p3, l3>> \in
                        {2, 1} \X {2, 1, 0, 0 - 1} \X {0, 1} \X {0, 1, 2} \X {1, 0, 0 - 2} \X {0, 1}}
    IN {SubSeq(c, 1, n) : c \in full, n \in 0..3}
       \cup {<<Task(1, "a", 1, 0, 0), StoredEvent(2, 1, 2), Task(3, "a", 1, 1, 0),
                StoredEvent(4, 1, 1)>>}

\* a stored task for the search engine: its text, date and done flag vary
SearchTask(id, text, date, done) == [Task(id, text, date, 0, 0) EXCEPT !.done = done]

SearchTexts == {"ab", "Ab", "a b", "ba", "b", "abba", LongText}

Queries == {"", " ", "a", "ab", "Ab", "b", "aba"}

\* stored collections handed to the search engine: up to three tasks, dated
\* yesterday, today or tomorrow
SearchCollections ==
    LET first == {SearchTask(1, x, d, dn) :
                     x \in SearchTexts, d \in (Today - 1)..(Today + 1), dn \in BOOLEAN}
        second == {SearchTask(2, x, d, dn) :
                     x \in SearchTexts, d \in (Today - 1)..(Today + 1), dn \in BOOLEAN}
        third == {SearchTask(3, x, d, FALSE) : x \in {"ab", "a b"}, d \in {Today - 1, Today + 1}}
    IN {<<>>} \cup {<<a>> : a \in first} \cup {<<a, b>> : a \in first, b \in second}
       \cup {<<a, b, c>> : a \in first, b \in second, c \in third}

NoLast == [op |-> "none"]

InitWith(collections, calendars) ==
    /\ tasks \in collections
    /\ calendar \in calendars
    /\ currentDate = Today
    /\ mtasks = updateTasksForCurrentDate(tasks, calendar, Today)
    /\ mode = "view"
    /\ items = rebuildListItems(tasks)
    /\ cursor = 1
    /\ editDate = Today
    /\ editTaskForDate = NoId
    /\ deleteTaskID = NoId
    /\ textInput = ""
    /\ saved = tasks
    /\ nextId = Len(tasks) + 1
    /\ searchQuery = ""
    /\ searchResults = <<>>
    /\ searchCursor = 0
    /\ ops = 0
    /\ last = NoLast

Init == InitWith(StoredCollections, {BusyCalendar})

InitSearch == InitWith(SearchCollections, {<<>>})

InitEngine == InitWith(EngineCollections, Calendars)

-----------------------------------------------------------------------------
(* The key-event machine: Model.Update / handleKeyMsg *)

selected == getSelectedListItem(items, cursor)

TaskSelected == selected.type = "task" /\ selected.task # NoTask

editVars == <<editDate, editTaskForDate, textInput>>

\* a view-mode handler that changed the collection: saveData, then
\* rebuildListItemsPreservingSelection
Mutated(op, ts) ==
    /\ ops < MaxOps
    /\ tasks' = ts
    /\ saved' = ts
    /\ mtasks' = updateTasksForCurrentDate(ts, calendar, currentDate)
    /\ items' = rebuildListItems(ts)
    /\ cursor' = rebuildListItemsPreservingSelection(items, cursor, ts)
    /\ ops' = ops + 1
    /\ last' = [op |-> op, id |-> selected.task.id, date |-> selected.date,
                sel |-> selected, before |-> tasks]
    /\ UNCHANGED <<searchVars, calendar, currentDate, nextId>>

\* default branch of handleViewMode: the list handles the up and down keys
CursorTo(i) ==
    /\ mode = "view"
    /\ i >= 1 /\ i <= Len(items)
    /\ cursor' = i
    /\ last' = NoLast
    /\ UNCHANGED <<searchVars, tasks, mtasks, calendar, currentDate, mode, items, editVars,
                   deleteTaskID, saved, nextId, ops>>

CursorUp == CursorTo(cursor - 1)

CursorDown == CursorTo(cursor + 1)

\* an enter key that starts a new task below the selected task
KeyEnterNewBelowTask ==
    /\ mode = "view"
    /\ ops < MaxOps
    /\ selected.type = "add_button" \/ TaskSelected
    /\ editTaskForDate' = NoId
    /\ textInput' = ""
    /\ mode' = "edit"
    /\ editDate' = selected.date
    /\ ops' = ops + 1
    /\ last' = NoLast
    /\ UNCHANGED <<searchVars, tasks, mtasks, calendar, currentDate, items, cursor,
                   deleteTaskID, saved, nextId>>

KeyEnter ==
    /\ mode = "view"
    /\ ops < MaxOps
    /\ \/ /\ selected.type = "add_button"
          /\ editTaskForDate' = NoId
          /\ textInput' = ""
       \/ /\ TaskSelected
          /\ editTaskForDate' = selected.task.id
          /\ textInput' = selected.task.text
    /\ mode' = "edit"
    /\ editDate' = selected.date
    /\ ops' = ops + 1
    /\ last' = NoLast
    /\ UNCHANGED <<searchVars, tasks, mtasks, calendar, currentDate, items, cursor,
                   deleteTaskID, saved, nextId>>

KeySpace ==
    /\ mode = "view"
    /\ TaskSelected
    /\ Mutated("toggle", toggleTaskById(tasks, selected.task.id))
    /\ UNCHANGED <<mode, editVars, deleteTaskID>>

KeyD ==
    /\ mode = "view"
    /\ TaskSelected
    /\ ops < MaxOps
    /\ deleteTaskID' = selected.task.id
    /\ mode' = "delete"
    /\ ops' = ops + 1
    /\ last' = NoLast
    /\ UNCHANGED <<searchVars, tasks, mtasks, calendar, currentDate, items, cursor, editVars,
                   saved, nextId>>

\* an indent handler without its saveData call
KeyTabNoSave ==
    /\ mode = "view"
    /\ TaskSelected
    /\ ops < MaxOps
    /\ tasks' = adjustTaskLevel(tasks, selected.task.id, 1)
    /\ mtasks' = updateTasksForCurrentDate(tasks', calendar, currentDate)
    /\ items' = rebuildListItems(tasks')
    /\ cursor' = rebuildListItemsPreservingSelection(items, cursor, tasks')
    /\ ops' = ops + 1
    /\ last' = [op |-> "indent", id |-> selected.task.id, date |-> selected.date,
                sel |-> selected, before |-> tasks]
    /\ UNCHANGED <<searchVars, calendar, currentDate, nextId, saved, mode, editVars, deleteTaskID>>

KeyTab ==
    /\ mode = "view"
    /\ TaskSelected
    /\ Mutated("indent", adjustTaskLevel(tasks, selected.task.id, 1))
    /\ UNCHANGED <<mode, editVars, deleteTaskID>>

KeyShiftTab ==
    /\ mode = "view"
    /\ TaskSelected
    /\ Mutated("outdent", adjustTaskLevel(tasks, selected.task.id, 0 - 1))
    /\ UNCHANGED <<mode, editVars, deleteTaskID>>

KeyShiftUp ==
    /\ mode = "view"
    /\ TaskSelected
    /\ ~selected.task.cal
    /\ Mutated("moveUp", moveTaskUp(tasks, currentDate, selected.date, selected.task.id))
    /\ UNCHANGED <<mode, editVars, deleteTaskID>>

KeyShiftDown ==
    /\ mode = "view"
    /\ TaskSelected
    /\ ~selected.task.cal
    /\ Mutated("moveDown", moveTaskDown(tasks, selected.date, selected.task.id))
    /\ UNCHANGED <<mode, editVars, deleteTaskID>>



\* n and p: the next and the previous day
Navigated(cd) ==
    /\ mode = "view"
    /\ ops < MaxOps
    /\ currentDate' = cd
    /\ mtasks' = updateTasksForCurrentDate(tasks, calendar, cd)
    /\ items' = rebuildListItems(tasks)
    /\ cursor' = KeepIndex(items', cursor)
    /\ ops' = ops + 1
    /\ last' = NoLast
    /\ UNCHANGED <<searchVars, tasks, calendar, mode, editVars, deleteTaskID, saved, nextId>>

KeyN == Navigated(currentDate + 1)

KeyP == Navigated(currentDate - 1)

\* Model.Update in ModeEdit: every key but esc and enter goes to the text input
EditType ==
    /\ mode = "edit"
    /\ \E t \in Texts : t # textInput /\ textInput' = t
    /\ last' = NoLast
    /\ UNCHANGED <<searchVars, tasks, mtasks, calendar, currentDate, mode, items, cursor, editDate,
                   editTaskForDate, deleteTaskID, saved, nextId, ops>>

EditEsc ==
    /\ mode = "edit"
    /\ mode' = "view"
    /\ last' = NoLast
    /\ UNCHANGED <<searchVars, tasks, mtasks, calendar, currentDate, items, cursor, editVars,
                   deleteTaskID, saved, nextId, ops>>

\* enter in ModeEdit with non-empty text: a new task, or the text of an existing one
EditEnterText ==
    /\ mode = "edit"
    /\ TrimSpace(textInput) # ""
    /\ LET text == TrimSpace(textInput)
           ts == IF editTaskForDate = NoId
                 THEN insertTaskAtPosition(tasks, selected, CreateTask(nextId, text, editDate),
                                           editDate)
                 ELSE setTaskText(tasks, editTaskForDate, text)
       IN /\ tasks' = ts
          /\ saved' = ts
          /\ mtasks' = updateTasksForCurrentDate(ts, calendar, currentDate)
          /\ items' = rebuildListItems(ts)
          /\ cursor' = KeepIndex(items', cursor)
          /\ nextId' = IF editTaskForDate = NoId THEN nextId + 1 ELSE nextId
          /\ last' = [op |-> IF editTaskForDate = NoId THEN "insert" ELSE "edit",
                      id |-> IF editTaskForDate = NoId THEN nextId ELSE editTaskForDate,
                      date |-> editDate, sel |-> selected, before |-> tasks]
    /\ mode' = "view"
    /\ textInput' = ""
    /\ editTaskForDate' = NoId
    /\ UNCHANGED <<searchVars, calendar, currentDate, editDate, deleteTaskID, ops>>

EditEnterEmpty ==
    /\ mode = "edit"
    /\ TrimSpace(textInput) = ""
    /\ mode' = "view"
    /\ textInput' = ""
    /\ editTaskForDate' = NoId
    /\ last' = NoLast
    /\ UNCHANGED <<searchVars, tasks, mtasks, calendar, currentDate, items, cursor, editDate,
                   deleteTaskID, saved, nextId, ops>>

\* y or Y in ModeDeleteConfirm
DeleteConfirmYes ==
    /\ mode = "delete"
    /\ deleteTaskID # NoId
    /\ LET ts == deleteTaskById(tasks, deleteTaskID)
       IN /\ tasks' = ts
          /\ saved' = ts
          /\ mtasks' = updateTasksForCurrentDate(ts, calendar, currentDate)
          /\ items' = rebuildListItems(ts)
          /\ cursor' = rebuildListItemsPreservingSelection(items, cursor, ts)
    /\ last' = [op |-> "delete", id |-> deleteTaskID, date |-> selected.date,
                sel |-> selected, before |-> tasks]
    /\ deleteTaskID' = NoId
    /\ mode' = "view"
    /\ UNCHANGED <<searchVars, calendar, currentDate, editVars, nextId, ops>>

\* a cancellation that leaves deleteTaskID set
DeleteConfirmNoKeepsId ==
    /\ mode = "delete"
    /\ mode' = "view"
    /\ last' = [op |-> "cancel"]
    /\ UNCHANGED <<searchVars, tasks, mtasks, calendar, currentDate, items, cursor, editVars,
                   deleteTaskID, saved, nextId, ops>>

\* n, N or esc in ModeDeleteConfirm
DeleteConfirmNo ==
    /\ mode = "delete"
    /\ deleteTaskID' = NoId
    /\ mode' = "view"
    /\ last' = [op |-> "cancel"]
    /\ UNCHANGED <<searchVars, tasks, mtasks, calendar, currentDate, items, cursor, editVars,
                   saved, nextId, ops>>

\* "/" in ModeView
KeySlash ==
    /\ mode = "view"
    /\ ops < MaxOps
    /\ mode' = "search"
    /\ textInput' = ""
    /\ ops' = ops + 1
    /\ last' = NoLast
    /\ UNCHANGED <<searchVars, tasks, mtasks, calendar, currentDate, items, cursor, editDate,
                   editTaskForDate, deleteTaskID, saved, nextId>>

\* updateSearchResults: <<searchResults, searchCursor>> for the new query
updateSearchResults(query, ts, cur) ==
    IF query = "" THEN <<<<>>, cur>> ELSE <<Search(query, ts), 0>>

\* values of the text input in ModeSearch
TypedQueries == {"", " ", "a", "b"}

\* any other key in ModeSearch: the text input takes it and the results follow
SearchType ==
    /\ mode = "search"
    /\ \E q \in TypedQueries :
          /\ q # textInput
          /\ textInput' = q
          /\ searchQuery' = q
          /\ searchResults' = updateSearchResults(q, tasks, searchCursor)[1]
          /\ searchCursor' = updateSearchResults(q, tasks, searchCursor)[2]
    /\ last' = NoLast
    /\ UNCHANGED <<tasks, mtasks, calendar, currentDate, mode, items, cursor, editDate,
                   editTaskForDate, deleteTaskID, saved, nextId, ops>>

SearchMove(c) ==
    /\ mode = "search"
    /\ searchCursor' = c
    /\ last' = NoLast
    /\ UNCHANGED <<searchQuery, searchResults, tasks, mtasks, calendar, currentDate, mode,
                   items, cursor, editVars, deleteTaskID, saved, nextId, ops>>

\* up or k in ModeSearch
SearchUp == searchCursor > 0 /\ SearchMove(searchCursor - 1)

\* a down key that does not look at the number of results
SearchDownNoBound == SearchMove(searchCursor + 1)

\* down or j in ModeSearch
SearchDown == searchCursor < Len(searchResults) - 1 /\ SearchMove(searchCursor + 1)

\* esc in ModeSearch
SearchEsc ==
    /\ mode = "search"
    /\ mode' = "view"
    /\ searchQuery' = ""
    /\ searchResults' = <<>>
    /\ searchCursor' = 0
    /\ last' = NoLast
    /\ UNCHANGED <<tasks, mtasks, calendar, currentDate, items, cursor, editVars,
                   deleteTaskID, saved, nextId, ops>>

\* enter in ModeSearch: go to the selected result, if there is one
SearchEnter ==
    /\ mode = "search"
    /\ IF searchCursor < Len(searchResults)
       THEN /\ cursor' = setListCursorToTask(items, cursor,
                                             searchResults[searchCursor + 1].task.id)
            /\ mode' = "view"
            /\ searchQuery' = ""
            /\ searchResults' = <<>>
            /\ searchCursor' = 0
            /\ last' = [op |-> "goto", index |-> searchCursor, len |-> Len(searchResults)]
       ELSE /\ last' = [op |-> "nogoto"]
            /\ UNCHANGED <<searchVars, cursor, mode>>
    /\ UNCHANGED <<tasks, mtasks, calendar, currentDate, items, editVars, deleteTaskID,
                   saved, nextId, ops>>

Next ==
    \/ CursorUp
    \/ CursorDown
    \/ KeyEnter
    \/ KeySpace
    \/ KeyD
    \/ KeyTab
    \/ KeyShiftTab
    \/ KeyShiftUp
    \/ KeyShiftDown
    \/ KeyN
    \/ KeyP
    \/ EditType
    \/ EditEsc
    \/ EditEnterText
    \/ EditEnterEmpty
    \/ DeleteConfirmYes
    \/ DeleteConfirmNo
    \/ KeySlash
    \/ SearchType
    \/ SearchUp
    \/ SearchDown
    \/ SearchEsc
    \/ SearchEnter

Spec == Init /\ [][Next]_vars

-----------------------------------------------------------------------------
(* The engines called directly, on any list item of any stored collection *)

MaxCalls == 1

Days == (Today - 1)..(Today + FutureDays + 1)

Called(op, i, ts) ==
    /\ ops < MaxCalls
    /\ tasks' = ts
    /\ items' = rebuildListItems(ts)
    /\ cursor' = i
    /\ ops' = ops + 1
    /\ last' = [op |-> op, id |-> IF op = "insert" THEN nextId ELSE items[i].task.id,
                date |-> items[i].date, sel |-> items[i], before |-> tasks]
    /\ UNCHANGED <<searchVars, calendar, currentDate, mode, editVars, deleteTaskID, saved>>

CallInsert ==
    \E i \in 1..Len(items) :
        /\ Called("insert", i,
                  insertTaskAtPosition(tasks, items[i], CreateTask(nextId, "a", items[i].date),
                                       items[i].date))
        /\ nextId' = nextId + 1
        /\ UNCHANGED mtasks

CallMoveUp ==
    \E i \in 1..Len(items) :
        /\ items[i].type = "task"
        /\ Called("moveUp", i, moveTaskUp(tasks, currentDate, items[i].date, items[i].task.id))
        /\ mtasks' = updateTasksForCurrentDate(tasks', calendar, currentDate)
        /\ UNCHANGED nextId

CallMoveDown ==
    \E i \in 1..Len(items) :
        /\ items[i].type = "task"
        /\ Called("moveDown", i, moveTaskDown(tasks, items[i].date, items[i].task.id))
        /\ mtasks' = updateTasksForCurrentDate(tasks', calendar, currentDate)
        /\ UNCHANGED nextId

\* updateTasksForCurrentDate for any current date
CallCompose ==
    \E d \in Days :
        /\ ops < MaxCalls
        /\ currentDate' = d
        /\ mtasks' = updateTasksForCurrentDate(tasks, calendar, d)
        /\ ops' = ops + 1
        /\ last' = [op |-> "compose", id |-> NoId, date |-> d, sel |-> NoItem,
                    before |-> tasks]
        /\ UNCHANGED <<searchVars, tasks, calendar, mode, items, cursor, editVars, deleteTaskID,
                       saved, nextId>>

NextEngine ==
    \/ CallInsert
    \/ CallMoveUp
    \/ CallMoveDown
    \/ CallCompose

SpecEngine == InitEngine /\ [][NextEngine]_vars

-----------------------------------------------------------------------------
(* The search engine called directly, with any query on any stored collection *)

CallSearch ==
    \E q \in Queries :
        /\ ops < MaxCalls
        /\ searchQuery' = q
        /\ searchResults' = Search(q, tasks)
        /\ ops' = ops + 1
        /\ last' = [op |-> "search"]
        /\ UNCHANGED <<tasks, mtasks, calendar, currentDate, mode, items, cursor, editVars,
                       deleteTaskID, saved, nextId, searchCursor>>

NextSearch == CallSearch

SpecSearch == InitSearch /\ [][NextSearch]_vars

-----------------------------------------------------------------------------
(* Day order *)

Ordered(s) ==
    \A i \in 1..Len(s) : \A j \in (i + 1)..Len(s) :
        /\ s[j].cal => s[i].cal
        /\ s[i].cal /\ s[j].cal => s[i].start <= s[j].start
        /\ ~s[i].cal /\ ~s[j].cal => s[i].prio >= s[j].prio

CountOf(s, P(_)) == Cardinality({i \in 1..Len(s) : P(s[i])})

\* C1: every composited day lists its calendar events first, by ascending start
\* time, and then its tasks by descending priority.
C1_DayOrder ==
    /\ Ordered(mtasks)
    /\ \A d \in Days : Ordered(getTasksForDate(tasks, d))

C1_Witness ==
    /\ last.op = "compose"
    /\ CountOf(mtasks, LAMBDA t : t.cal) >= 2
    /\ CountOf(mtasks, LAMBDA t : ~t.cal) >= 2
    /\ \E i, j \in 1..Len(mtasks) : mtasks[i].cal /\ mtasks[j].cal /\ mtasks[i].start < mtasks[j].start
    /\ \E i, j \in 1..Len(mtasks) : ~mtasks[i].cal /\ ~mtasks[j].cal /\ mtasks[i].prio > mtasks[j].prio
    /\ \E d \in Days : LET s == getTasksForDate(tasks, d)
                       IN \E i, j \in 1..Len(s) : s[i].cal /\ ~s[j].cal

-----------------------------------------------------------------------------
(* Descendant blocks, inferred from the display order and the levels *)

TaskById(ts, id) == ts[IndexOfId(ts, id)]

\* the ids of the tasks that follow the task in its day with a deeper level, up to
\* the first task that is not deeper
Block(ts, date, id) ==
    LET s == getTasksForDate(ts, date)
        i == IndexOfId(s, id)
    IN IF i = 0 THEN {}
       ELSE {s[j].id : j \in {k \in (i + 1)..Len(s) :
                                \A m \in (i + 1)..k : s[m].level > s[i].level}}

\* position of the task in the display order of the day
Place(ts, date, id) == IndexOfId(getTasksForDate(ts, date), id)

InsertedAfterTask ==
    /\ last.op = "insert"
    /\ last.sel.type = "task"
    /\ ~last.sel.task.cal

\* C2: a task inserted while task T is selected has a priority below T's and
\* below that of every task of T's descendant block, and sorts after them all.
C2_InsertBelowBlock ==
    InsertedAfterTask =>
        LET T == last.sel.task
            new == TaskById(tasks, last.id)
        IN /\ new.prio < T.prio
           /\ Place(tasks, last.date, new.id) > Place(tasks, last.date, T.id)
           /\ \A b \in Block(last.before, last.date, T.id) :
                /\ new.prio < TaskById(tasks, b).prio
                /\ Place(tasks, last.date, new.id) > Place(tasks, last.date, b)

C2_Witness ==
    /\ InsertedAfterTask
    /\ \E b \in Block(last.before, last.date, last.sel.task.id) :
            TaskById(tasks, b).prio <= last.sel.task.prio - 2

\* C3: a task inserted while task T is selected has a priority above every task
\* of the day that sorts after T's descendant block, and is displayed right
\* after the block.
C3_InsertDirectlyAfterBlock ==
    InsertedAfterTask =>
        LET T == last.sel.task
            new == TaskById(tasks, last.id)
            day == getTasksForDate(last.before, last.date)
            blockEnd == Place(last.before, last.date, T.id)
                        + Cardinality(Block(last.before, last.date, T.id))
        IN /\ \A j \in (blockEnd + 1)..Len(day) : new.prio > day[j].prio
           /\ Place(tasks, last.date, new.id) = blockEnd + 1

\* C4: an insertion with a task or an add button selected leaves the descendant
\* block of every task of the target day as it was.
C4_InsertPreservesBlocks ==
    (/\ last.op = "insert"
     /\ \/ InsertedAfterTask
        \/ last.sel.type = "add_button")
    => \A i \in 1..Len(last.before) :
          last.before[i].date = last.date =>
              Block(tasks, last.date, last.before[i].id)
                  = Block(last.before, last.date, last.before[i].id)

Moved == last.op \in {"moveUp", "moveDown"} /\ ~last.sel.task.cal

\* C5: a move of a task with a non-empty descendant block keeps the block.
C5_MovePreservesBlock ==
    (Moved /\ Block(last.before, last.date, last.id) # {})
    => Block(tasks, TaskById(tasks, last.id).date, last.id)
          = Block(last.before, last.date, last.id)

\* C7: a move up of a task that is not the first of its day puts it one place
\* earlier, before the task that preceded it; a move down of a task that is not
\* the last puts it one place later, after the task that followed it.
C7_WithinDayReorder ==
    LET day == getTasksForDate(last.before, last.date)
        i == IndexOfId(day, last.id)
    IN /\ (Moved /\ last.op = "moveUp" /\ i > 1 /\ ~day[i - 1].cal)
          => /\ Place(tasks, last.date, last.id) = i - 1
             /\ Place(tasks, last.date, day[i - 1].id) = i
       /\ (Moved /\ last.op = "moveDown" /\ i < Len(day))
          => /\ Place(tasks, last.date, last.id) = i + 1
             /\ Place(tasks, last.date, day[i + 1].id) = i

MovedDownFromLast ==
    /\ Moved
    /\ last.op = "moveDown"
    /\ Place(last.before, last.date, last.id) = Len(getTasksForDate(last.before, last.date))

\* the other tasks (not calendar events) stored on the date
Others(ts, date, id) ==
    {i \in 1..Len(ts) : ts[i].date = date /\ ~ts[i].cal /\ ts[i].id # id}

\* C8: a move down of the last task of day D puts it on day D+1 with a priority
\* above every other task of D+1, first among that day's tasks.
C8_MoveDownTransfers ==
    MovedDownFromLast =>
        LET T == TaskById(tasks, last.id)
            day == getTasksForDate(tasks, last.date + 1)
        IN /\ T.date = last.date + 1
           /\ \A i \in Others(tasks, last.date + 1, last.id) : T.prio > tasks[i].prio
           /\ \A j \in 1..(IndexOfId(day, last.id) - 1) : day[j].cal

C8_Witness ==
    /\ MovedDownFromLast
    /\ \E i \in Others(tasks, last.date + 1, last.id) : tasks[i].prio > 0
    /\ TaskById(last.before, last.id).prio < 0

MovedUpFromFirst ==
    /\ Moved
    /\ last.op = "moveUp"
    /\ Place(last.before, last.date, last.id) = 1

\* C6: no move puts a task on a day before today, and a move up of the first
\* task of today changes nothing.
C6_MoveFloor ==
    Moved =>
        /\ \A i \in 1..Len(tasks) :
              tasks[i].date # last.before[i].date => tasks[i].date >= Today
        /\ (MovedUpFromFirst /\ last.date = Today) => tasks = last.before

\* C9: a move up of the first task of day D, with D-1 not before today, puts it
\* on day D-1 with a priority below every other task of D-1.
C9_MoveUpTransfers ==
    (MovedUpFromFirst /\ last.date - 1 >= Today) =>
        LET T == TaskById(tasks, last.id)
        IN /\ T.date = last.date - 1
           /\ \A i \in Others(tasks, last.date - 1, last.id) : T.prio < tasks[i].prio

AppendedToDay ==
    /\ last.op = "insert"
    /\ last.sel.type = "add_button"
    /\ OnDate(last.before, last.date) # <<>>

\* C10: a task created with the add button of a day that has stored tasks gets a
\* priority below every task of the day, and is displayed last.
C10_AppendBelowAll ==
    AppendedToDay =>
        LET new == TaskById(tasks, last.id)
            day == getTasksForDate(tasks, last.date)
        IN /\ new.date = last.date
           /\ \A i \in Others(tasks, last.date, last.id) : new.prio < tasks[i].prio
           /\ day[Len(day)].id = new.id

C10_Witness ==
    /\ AppendedToDay
    /\ Others(tasks, last.date, last.id) # {}
    /\ \A i \in Others(tasks, last.date, last.id) : tasks[i].prio > 0

-----------------------------------------------------------------------------
(* Levels and deletion *)

\* C11: no task ever has a negative level, and an outdent of a task at level 0
\* leaves it at level 0 (the handler completes as for any other task).
C11_LevelNonNegative ==
    /\ \A i \in 1..Len(tasks) : tasks[i].level >= 0
    /\ (last.op = "outdent" /\ TaskById(last.before, last.id).level = 0)
          => /\ TaskById(tasks, last.id).level = 0
             /\ mode = "view"
             /\ saved = tasks

C11_Witness ==
    /\ last.op = "outdent"
    /\ TaskById(last.before, last.id).level = 0
    /\ \E i \in 1..Len(tasks) : tasks[i].level > 0

\* C12: a deletion removes the task with the given id and nothing else: the
\* other tasks, those of its descendant block included, stay as they were, in
\* the same storage order.
C12_DeleteExactlyOne ==
    last.op = "delete" =>
        /\ Len(tasks) = Len(last.before) - 1
        /\ IndexOfId(tasks, last.id) = 0
        /\ tasks = SelectSeq(last.before, LAMBDA t : t.id # last.id)

C12_Witness ==
    /\ last.op = "delete"
    /\ Block(last.before, last.date, last.id) # {}
    /\ IndexOfId(last.before, last.id) < Len(last.before)
    /\ \A b \in Block(last.before, last.date, last.id) : IndexOfId(tasks, b) # 0

\* some stored task is gone after the step
TaskRemoved == \E i \in 1..Len(tasks) : IndexOfId(tasks', tasks[i].id) = 0

RemovedByConfirmation ==
    TaskRemoved => (/\ mode = "delete"
                    /\ last'.op = "delete"
                    /\ tasks' = deleteTaskById(tasks, deleteTaskID))

ConfirmationAsked ==
    (mode' = "delete" /\ mode # "delete") => (/\ mode = "view"
                                              /\ TaskSelected
                                              /\ deleteTaskID' = selected.task.id
                                              /\ tasks' = tasks)

CancelKeeps ==
    (last'.op = "cancel") => (/\ mode = "delete"
                              /\ mode' = "view"
                              /\ tasks' = tasks
                              /\ saved' = saved)

-----------------------------------------------------------------------------
(* Persistence *)

MutatingOps == {"insert", "edit", "toggle", "delete", "indent", "outdent", "moveUp", "moveDown"}

\* C14: between two key events the collection last handed to SaveData is the
\* collection in memory.
C14_SavedAfterEveryMutation == saved = tasks

C14_Witness ==
    /\ last.op \in MutatingOps
    /\ tasks # last.before
    /\ saved = tasks

-----------------------------------------------------------------------------
(* Identity of the stored tasks *)

IdsOf(ts) == [i \in 1..Len(ts) |-> ts[i].id]

DistinctIds(ts) == \A i, j \in 1..Len(ts) : ts[i].id = ts[j].id => i = j

\* C15: no two stored tasks share an id, and no operation changes the id of a
\* task: a creation adds one id, a deletion removes one, every other operation
\* leaves the ids as they were.
C15_UniqueIds ==
    /\ DistinctIds(tasks)
    /\ last.op \in MutatingOps =>
          IdsOf(tasks) = CASE last.op = "insert" -> Append(IdsOf(last.before), last.id)
                           [] last.op = "delete" ->
                                SelectSeq(IdsOf(last.before), LAMBDA i : i # last.id)
                           [] OTHER -> IdsOf(last.before)

C15_Witness ==
    /\ last.op = "insert"
    /\ Len(tasks) >= 3
    /\ DistinctIds(tasks)

\* C16: no calendar event is in the stored collection or in the collection
\* handed to SaveData, while the composited day shows calendar events.
C16_CalendarNeverPersisted ==
    /\ \A i \in 1..Len(tasks) : ~tasks[i].cal
    /\ \A i \in 1..Len(saved) : ~saved[i].cal

C16_Witness ==
    /\ last.op \in MutatingOps
    /\ \E i \in 1..Len(mtasks) : mtasks[i].cal
    /\ \E i \in 1..Len(mtasks) : ~mtasks[i].cal
    /\ saved = tasks /\ saved # <<>>

-----------------------------------------------------------------------------
(* Search *)

\* C17: a search with an empty query, or with a query of whitespace only,
\* returns no result.
C17_BlankQueryNoResults ==
    (last.op = "search" /\ TrimSpace(searchQuery) = "") => searchResults = <<>>

C17_Witness ==
    /\ last.op = "search"
    /\ searchQuery = ""
    /\ tasks # <<>>

Searched == last.op = "search" /\ searchQuery # ""

\* C18: the results are in non-increasing order of score, adjacent results of
\* equal score in non-increasing order of date, and every score is positive.
C18_ResultsOrdered ==
    Searched =>
        \A i \in 1..Len(searchResults) :
            /\ searchResults[i].score > 0
            /\ i < Len(searchResults) =>
                  /\ searchResults[i].score >= searchResults[i + 1].score
                  /\ searchResults[i].score = searchResults[i + 1].score
                        => searchResults[i].task.date >= searchResults[i + 1].task.date

C18_Witness ==
    /\ Searched
    /\ Len(searchResults) = 3
    /\ \E i, j \in 1..3 :
          /\ i < j
          /\ searchResults[i].score = searchResults[j].score
          /\ searchResults[i].task.date > searchResults[j].task.date
          /\ searchResults[i].task.id > searchResults[j].task.id
    /\ \E i \in 1..2 : searchResults[i].score > searchResults[i + 1].score

IsActive(t) == ~t.done /\ t.date >= Today

BaseScore(t) == calculateScore(ToLower(Runes(searchQuery)), Runes(t.text))

\* C19: a result's score is the base score of its task plus 100 if the task is
\* not done and dated today or later, and the base score otherwise; of two
\* matching tasks with the same text, such a task comes before one that is
\* done or past.
C19_ActiveBoost ==
    Searched =>
        /\ \A i \in 1..Len(searchResults) :
              LET t == searchResults[i].task
              IN /\ BaseScore(t) > 0
                 /\ searchResults[i].score
                      = IF IsActive(t) THEN BaseScore(t) + 100 ELSE BaseScore(t)
        /\ \A k \in 1..Len(tasks) :
              BaseScore(tasks[k]) > 0 =>
                  \E i \in 1..Len(searchResults) : searchResults[i].task = tasks[k]
        /\ \A i, j \in 1..Len(searchResults) :
              (/\ searchResults[i].task.text = searchResults[j].task.text
               /\ IsActive(searchResults[i].task)
               /\ ~IsActive(searchResults[j].task)) => i < j

C19_Witness ==
    /\ Searched
    /\ \E i, j \in 1..Len(searchResults) :
          /\ searchResults[i].task.text = searchResults[j].task.text
          /\ IsActive(searchResults[i].task)
          /\ searchResults[j].task.done /\ searchResults[j].task.date >= Today
          /\ searchResults[i].task.id > searchResults[j].task.id
    /\ \E i \in 1..Len(searchResults) : searchResults[i].task.date < Today

\* C20: every matching task that is not done and dated today or later comes
\* before every matching task that is done or dated before today.
C20_ActiveBeforeHistorical ==
    Searched =>
        \A i, j \in 1..Len(searchResults) :
            (IsActive(searchResults[i].task) /\ ~IsActive(searchResults[j].task)) => i < j

-----------------------------------------------------------------------------
(* The value of the priority an insertion after a task assigns *)

\* C22: a task inserted while task T is selected gets the lowest priority
\* among T and the tasks of T's descendant block, minus one (T's priority minus
\* one when the block is empty); tasks outside the block have no influence.
C22_InsertPriorityValue ==
    InsertedAfterTask =>
        LET T == last.sel.task
            block == Block(last.before, last.date, T.id)
        IN TaskById(tasks, last.id).prio
              = MinOf({T.prio} \cup {TaskById(last.before, b).prio : b \in block}) - 1

-----------------------------------------------------------------------------
(* What a move changes *)

MoveRequested == last.op \in {"moveUp", "moveDown"}

\* C23: a move changes at most the date and the priority of the task with the
\* given id, and nothing of any other task; within the day it changes only the
\* priority, by +1 for up and by -1 for down; a move of a calendar event
\* changes nothing.
C23_MoveFrame ==
    MoveRequested =>
        LET i == IndexOfId(last.before, last.id)
            old == last.before[i]
            place == Place(last.before, last.date, last.id)
            size == Len(getTasksForDate(last.before, last.date))
        IN /\ Len(tasks) = Len(last.before)
           /\ \A k \in 1..Len(tasks) : k # i => tasks[k] = last.before[k]
           /\ [tasks[i] EXCEPT !.date = old.date, !.prio = old.prio] = old
           /\ old.cal => tasks[i] = old
           /\ (~old.cal /\ last.op = "moveUp" /\ place > 1)
                 => tasks[i].date = old.date /\ tasks[i].prio = old.prio + 1
           /\ (~old.cal /\ last.op = "moveDown" /\ place < size)
                 => tasks[i].date = old.date /\ tasks[i].prio = old.prio - 1

C23_Witness ==
    /\ MoveRequested
    /\ ~last.sel.task.cal
    /\ Place(last.before, last.date, last.id) > 1
    /\ last.op = "moveUp"
    /\ Len(tasks) = 3
    /\ \E k \in 1..Len(tasks) :
          tasks[k].date = last.date /\ tasks[k].id # last.id
          /\ tasks[k].prio # TaskById(last.before, last.id).prio

-----------------------------------------------------------------------------
(* Priorities of user tasks and the order of ties *)

AboveSentinel(ts) == \A i \in 1..Len(ts) : ~ts[i].cal => ts[i].prio > CalendarPriority

\* C24: insertions and moves keep every task that is not a calendar event
\* strictly above the priority -1 of the calendar events.
C24_SentinelReserved ==
    (last.op \in {"insert", "moveUp", "moveDown"} /\ AboveSentinel(last.before))
        => AboveSentinel(tasks)

\* C25: of two tasks of a day with the same priority, the one created later is
\* displayed first.
C25_TieBreakByCreatedAt ==
    last.op # "none" =>
        \A d \in Days :
            LET s == getTasksForDate(tasks, d)
            IN \A i, j \in 1..Len(s) :
                  (i < j /\ ~s[i].cal /\ ~s[j].cal /\ s[i].prio = s[j].prio)
                      => s[i].created >= s[j].created

-----------------------------------------------------------------------------
(* The score of one text *)

\* C26: calculateScore is never negative, whether the text contains the query
\* or only matches it as a subsequence, however long the text is.
C26_ScoreFloor ==
    Searched => \A i \in 1..Len(tasks) : BaseScore(tasks[i]) >= 0

\* the sum the claim describes: the consecutive bonus goes to a match at the
\* position right after the position of the previous match
RECURSIVE PositionScan(_, _, _, _, _, _)
PositionScan(queryChars, textChars, i, queryIdx, prevPos, score) ==
    IF i > Len(textChars) THEN <<queryIdx, score>>
    ELSE IF queryIdx < Len(queryChars) /\ textChars[i] = queryChars[queryIdx + 1]
         THEN LET consecutive == IF queryIdx > 0 /\ i = prevPos + 1 THEN 5 ELSE 0
                  boundary == IF i = 1 \/ textChars[i - 1] = " " THEN 15 ELSE 0
              IN PositionScan(queryChars, textChars, i + 1, queryIdx + 1, i,
                              score + 10 + consecutive + boundary)
         ELSE PositionScan(queryChars, textChars, i + 1, queryIdx, prevPos, score)

\* C27: for a text that does not contain the query, the score is 0 when the
\* query is not a subsequence of the text, and otherwise the positional sum
\* less the difference of the lengths, floored at 0.
C27_SubsequenceScore ==
    Searched =>
        \A k \in 1..Len(tasks) :
            LET query == ToLower(Runes(searchQuery))
                text == ToLower(Runes(tasks[k].text))
                r == PositionScan(query, text, 1, 0, 0, 0)
            IN ~Contains(text, query) =>
                  BaseScore(tasks[k]) =
                      IF r[1] < Len(query) THEN 0
                      ELSE max(0, r[2] - abs(Len(text) - Len(query)))

-----------------------------------------------------------------------------
(* Where new tasks go *)

\* C28: while a new task is being typed the selection is the add button of
\* the day it is typed for, and a new task gets the priority of the append
\* branch of insertTaskAtPosition, or the default priority on an empty day.
C28_NewTasksAppended ==
    /\ (mode = "edit" /\ editTaskForDate = NoId)
          => (selected.type = "add_button" /\ selected.date = editDate)
    /\ last.op = "insert"
          => /\ last.sel.type = "add_button"
             /\ last.sel.date = last.date
             /\ LET dayTasks == getTasksForDate(last.before, last.date)
                IN tasks[Len(tasks)].prio =
                      IF Len(dayTasks) = 0 THEN DefaultPriority
                      ELSE AppendPriority(dayTasks)

C28_Witness ==
    /\ last.op = "insert"
    /\ last.sel.type = "add_button"
    /\ Len(getTasksForDate(last.before, last.date)) > 0
    /\ tasks[Len(tasks)].id = last.id

-----------------------------------------------------------------------------
(* A move up undone by a move down *)

\* C29: after moveTaskUp of a task that was not the first of its day,
\* moveTaskDown of the same task gives back the collection as it was before
\* the move up.
C29_MoveRoundTrip ==
    (Moved /\ last.op = "moveUp" /\ Place(last.before, last.date, last.id) > 1)
        => moveTaskDown(tasks, TaskById(tasks, last.id).date, last.id) = last.before

-----------------------------------------------------------------------------
(* The cursor of the search results *)

\* C30: the search cursor is never negative, it is a position of the result
\* list whenever the list is not empty, and enter reads the list only at a
\* position the list has.
C30_SearchCursorInRange ==
    /\ searchCursor >= 0
    /\ searchResults # <<>> => searchCursor < Len(searchResults)
    /\ last.op = "goto" => (0 <= last.index /\ last.index < last.len)

C30_Witness ==
    /\ last.op = "goto"
    /\ last.index > 0
    /\ mode = "view"

====
